---- MODULE Spec2Model ----
(***************************************************************************)
(* Model of the feature toggle platform's FeatureFlagRepository: one       *)
(* JavaScript Map (this.flags) that holds every flag under two keys, its   *)
(* id and its name, and the FeatureFlag objects the map refers to.         *)
(*                                                                         *)
(* Objects have identity: the heap is the sequence of live FeatureFlag     *)
(* objects and a reference is an index into it (0 is null).  The Map is a  *)
(* sequence of entries in insertion order, as a JavaScript Map is.         *)
(***************************************************************************)
EXTENDS Integers, Sequences, FiniteSets, TLC

\* ---------------------------------------------------------------- bounds
\* FeatureFlag objects stored in the repository at the same time
MaxObjs == 2
\* largest limit / offset passed to list
MaxLimit == 2
\* requests in flight at the same time
MaxCalls == 2

\* ---------------------------------------------------------------- inputs
\* strings used as ids and as names (an id may equal a name)
Keys == {"a", "b", "ab"}
\* descriptions
Descriptions == {"", "B"}
\* search terms of list / count ("" is falsy: no filter)
Searches == {"", "A", "b"}
\* the partial update objects handed to update(id, updates)
UpdateInputs ==
    {[name |-> n] : n \in Keys}
      \cup {[description |-> d] : d \in Descriptions}
      \cup {[name |-> n, description |-> "B"] : n \in Keys}

\* limit when the caller gives none
DefaultLimit == 100
\* the options handed to list and count
ListOptions ==
    [limit : (1..MaxLimit) \cup {DefaultLimit}, offset : 0..MaxLimit, search : Searches]
\* what new Date() may read: an earlier and a later instant (the wall clock
\* is not monotonic, so any reading may follow any other)
Times == {0, 1}

Null == 0

VARIABLES
    flags,      \* this.flags: the Map, a sequence of [key, val] entries
    heap,       \* the live FeatureFlag objects; a reference is an index
    calls,      \* the repository calls in flight, statement by statement
    running,    \* the call whose body is on the JavaScript stack, 0 if none
    engine      \* the call made to the models or the evaluation engine

vars == <<flags, heap, calls, running, engine>>

\* ------------------------------------------------------------ strings
\* the characters of the strings in use
Chars(s) ==
    CASE s = ""   -> <<>>
      [] s = "a"  -> <<"a">>
      [] s = "b"  -> <<"b">>
      [] s = "ab" -> <<"a", "b">>
      [] s = "A"  -> <<"A">>
      [] s = "B"  -> <<"B">>
      [] s = "undefined" -> <<"u", "n", "d", "e", "f", "i", "n", "e", "d">>
      [] s = "alxg" -> <<"a", "l", "x", "g">>
      [] s = "lnb"  -> <<"l", "n", "b">>

\* String.prototype.toLowerCase, character by character
LowerChar(c) ==
    CASE c = "A" -> "a"
      [] c = "B" -> "b"
      [] OTHER   -> c

toLowerCase(cs) == [i \in 1..Len(cs) |-> LowerChar(cs[i])]

\* String.prototype.includes
includes(hay, needle) ==
    \E i \in 0..(Len(hay) - Len(needle)) :
        \A j \in 1..Len(needle) : hay[i + j] = needle[j]

\* ------------------------------------------------------------ Map
MapKeys(m) == {m[i].key : i \in 1..Len(m)}

MapHas(m, k) == k \in MapKeys(m)

MapIndex(m, k) == CHOOSE i \in 1..Len(m) : m[i].key = k

\* Map.prototype.get, with undefined read as Null
MapGet(m, k) == IF MapHas(m, k) THEN m[MapIndex(m, k)].val ELSE Null

\* Map.prototype.set: an existing key keeps its position
MapSet(m, k, v) ==
    IF MapHas(m, k)
    THEN [m EXCEPT ![MapIndex(m, k)].val = v]
    ELSE Append(m, [key |-> k, val |-> v])

\* Map.prototype.delete
MapDelete(m, k) ==
    IF MapHas(m, k)
    THEN LET p == MapIndex(m, k)
         IN  [i \in 1..(Len(m) - 1) |-> IF i < p THEN m[i] ELSE m[i + 1]]
    ELSE m

\* Array.from(map.values())
MapValues(m) == [i \in 1..Len(m) |-> m[i].val]

\* Array.from(map.entries())
MapEntries(m) == m

\* Array.prototype.slice(start, end)
slice(s, start, end) ==
    SubSeq(s, start + 1, IF end < Len(s) THEN end ELSE Len(s))

\* ------------------------------------------------------------ FeatureFlag
\* new FeatureFlag({id, name, description}) at time t.  Of the object's fields
\* the record keeps those the repository reads or writes by name; enabled,
\* rules and createdAt pass through it untouched.
FeatureFlag(id, name, description, t) ==
    [id |-> id, name |-> name, description |-> description, updatedAt |-> t]

\* Object.assign(target, source)
ObjectAssign(target, source) ==
    [f \in DOMAIN target |->
        IF f \in DOMAIN source THEN source[f] ELSE target[f]]

\* ------------------------------------------------------------ repository
\* what a call leaves behind: the map, the heap and the returned value
Outcome(m, h, ret, ref) == [flags |-> m, heap |-> h, ret |-> ret, ref |-> ref]

\* create that inserts the id-key before it has checked the name
create_idBeforeNameCheck(m, h, ff) ==
    IF MapHas(m, h[ff].id) THEN Outcome(m, h, "Conflict", Null)
    ELSE IF MapHas(m, h[ff].name)
         THEN Outcome(MapSet(m, h[ff].id, ff), h, "Conflict", Null)
    ELSE Outcome(MapSet(MapSet(m, h[ff].id, ff), h[ff].name, ff), h, "flag", ff)

\* create that forgets the name-key
create_idKeyOnly(m, h, ff) ==
    IF MapHas(m, h[ff].id) THEN Outcome(m, h, "Conflict", Null)
    ELSE IF MapHas(m, h[ff].name) THEN Outcome(m, h, "Conflict", Null)
    ELSE Outcome(MapSet(m, h[ff].id, ff), h, "flag", ff)

create(m, h, ff) ==
    IF MapHas(m, h[ff].id) THEN Outcome(m, h, "Conflict", Null)
    ELSE IF MapHas(m, h[ff].name) THEN Outcome(m, h, "Conflict", Null)
    ELSE Outcome(MapSet(MapSet(m, h[ff].id, ff), h[ff].name, ff), h, "flag", ff)

findById(m, id) == MapGet(m, id)

findByName(m, name) == MapGet(m, name)

\* update that applies the fields before it has checked the new name
update_assignBeforeCheck(m, h, id, updates, t) ==
    LET existingFlag == MapGet(m, id)
        renames == "name" \in DOMAIN updates
                     /\ updates.name # h[existingFlag].name
        applied == [ObjectAssign(h[existingFlag], updates) EXCEPT !.updatedAt = t]
    IN  IF existingFlag = Null THEN Outcome(m, h, "null", Null)
        ELSE IF renames /\ MapHas(m, updates.name)
             THEN Outcome(m, [h EXCEPT ![existingFlag] = applied], "Conflict", Null)
        ELSE Outcome(
               IF renames
               THEN MapSet(MapDelete(m, h[existingFlag].name), updates.name, existingFlag)
               ELSE m,
               [h EXCEPT ![existingFlag] = applied],
               "flag", existingFlag)

\* updates.name is truthy exactly when the field is present: names are not
\* empty
update(m, h, id, updates, t) ==
    LET existingFlag == MapGet(m, id)
        renames == "name" \in DOMAIN updates
                     /\ updates.name # h[existingFlag].name
        applied == [ObjectAssign(h[existingFlag], updates) EXCEPT !.updatedAt = t]
    IN  IF existingFlag = Null THEN Outcome(m, h, "null", Null)
        ELSE IF renames /\ MapHas(m, updates.name)
             THEN Outcome(m, h, "Conflict", Null)
        ELSE Outcome(
               IF renames
               THEN MapSet(MapDelete(m, h[existingFlag].name), updates.name, existingFlag)
               ELSE m,
               [h EXCEPT ![existingFlag] = applied],
               "flag", existingFlag)

delete(m, h, id) ==
    LET flag == MapGet(m, id)
    IN  IF flag = Null THEN Outcome(m, h, "false", Null)
        ELSE Outcome(MapDelete(MapDelete(m, id), h[flag].name), h, "true", flag)

\* the search filter shared by list and count
matchesSearch(flag, search) ==
    LET searchLower == toLowerCase(Chars(search))
    IN  \/ includes(toLowerCase(Chars(flag.name)), searchLower)
        \/ includes(toLowerCase(Chars(flag.description)), searchLower)

\* every value of the map is a flag object with a non-empty id and name, so
\* the first filter of list keeps them all; an empty search is falsy
list(m, h, options) ==
    LET all      == MapValues(m)
        keep(r)  == options.search = "" \/ matchesSearch(h[r], options.search)
        filtered == SelectSeq(all, keep)
    IN  slice(filtered, options.offset, options.offset + options.limit)

count(m, h, options) ==
    LET byId(e)  == h[e.val].id = e.key
        keep(e)  == options.search = "" \/ matchesSearch(h[e.val], options.search)
    IN  Len(SelectSeq(SelectSeq(MapEntries(m), byId), keep))

exists(m, id) == MapHas(m, id)

\* ------------------------------------------------------------ state machine
\* the objects the map refers to
Stored(m) == {m[i].val : i \in 1..Len(m)}

\* An object the map no longer refers to is garbage once the call has returned.
\* The live objects keep their order of construction and are renumbered 1..n.
NewRef(live, r) == Cardinality({q \in live : q <= r})

CollectHeap(m, h) ==
    LET live == Stored(m)
    IN  [i \in 1..Cardinality(live) |-> h[CHOOSE r \in live : NewRef(live, r) = i]]

CollectMap(m) == [i \in 1..Len(m) |-> [key |-> m[i].key, val |-> NewRef(Stored(m), m[i].val)]]

\* a call slot: the method, the statement it executes next, its arguments
\* (key, updates, the new flag ff), its local (existingFlag / flag) and result
Frame(op, pc, key, updates, ff, found, ret) ==
    [op |-> op, pc |-> pc, key |-> key, updates |-> updates, ff |-> ff,
     found |-> found, ret |-> ret]

Idle == Frame("none", "idle", "", [name |-> ""], Null, Null, "none")

\* no call to the models or the engine has been made
NoCall == [op |-> "none"]

Init ==
    /\ flags = <<>>
    /\ heap = <<>>
    /\ calls = [c \in 1..MaxCalls |-> Idle]
    /\ running = 0
    /\ engine = NoCall

\* the caller constructs a FeatureFlag and hands it to create
CallCreate ==
    \E id \in Keys, name \in Keys, d \in Descriptions, t \in Times :
        LET ff == Len(heap) + 1
            o  == create(flags, Append(heap, FeatureFlag(id, name, d, t)), ff)
        IN  /\ Cardinality(Stored(o.flags)) <= MaxObjs
            /\ flags' = CollectMap(o.flags)
            /\ heap' = CollectHeap(o.flags, o.heap)
            /\ UNCHANGED <<calls, running, engine>>

CallUpdate ==
    \E k \in Keys, u \in UpdateInputs, t \in Times :
        LET o == update(flags, heap, k, u, t)
        IN  /\ flags' = CollectMap(o.flags)
            /\ heap' = CollectHeap(o.flags, o.heap)
            /\ UNCHANGED <<calls, running, engine>>

CallDelete ==
    \E k \in Keys :
        LET o == delete(flags, heap, k)
        IN  /\ flags' = CollectMap(o.flags)
            /\ heap' = CollectHeap(o.flags, o.heap)
            /\ UNCHANGED <<calls, running, engine>>

Next ==
    \/ CallCreate
    \/ CallUpdate
    \/ CallDelete

Spec == Init /\ [][Next]_vars

\* ------------------------------------------------------------ event loop
\* Concurrently issued requests on the single-threaded event loop.  A call's
\* body runs statement by statement; another call runs only while no body is
\* on the stack.  Objects are not collected here: at most MaxObjs are built.

\* keys, clock readings and requests of the concurrent runs: the requests of
\* one burst read the same clock value
AsyncKeys == {"a", "b"}

AsyncTimes == {1}

AsyncRequests ==
    {Frame("create", "create:checkId", id, [name |-> name], Null, Null, "none") :
        id \in AsyncKeys, name \in AsyncKeys}
      \cup {Frame("update", "update:get", k, [name |-> n], Null, Null, "none") :
              k \in AsyncKeys, n \in AsyncKeys}
      \cup {Frame("delete", "delete:get", k, [name |-> ""], Null, Null, "none") :
              k \in AsyncKeys}
      \cup {Frame(op, "read", k, [name |-> ""], Null, Null, "none") :
              op \in {"findById", "findByName"}, k \in AsyncKeys}
      \cup {Frame(op, "read", "", [name |-> ""], Null, Null, "none") :
              op \in {"list", "count"}}

\* the body gives up the stack after the statement at pc
Suspends_betweenKeys(pc) ==
    pc \in {"return", "create:setId", "update:deleteOld", "delete:deleteId"}

\* The bodies of the repository's async methods contain no await: the stack
\* is given up only when the method has returned to the awaiting caller.
Suspends(pc) == pc = "return"

\* call c may execute its next statement
Runnable(c) == calls[c].pc # "idle" /\ (running = c \/ running = 0)

\* call c has executed the statement at its pc and continues as frame
Continue(c, frame) ==
    /\ calls' = [calls EXCEPT ![c] = frame]
    /\ running' = IF Suspends(calls[c].pc) THEN 0 ELSE c

\* a request arrives
Request ==
    \E c \in 1..MaxCalls :
        /\ calls[c].pc = "idle"
        /\ calls' = [calls EXCEPT ![c].pc = "start"]
        /\ UNCHANGED <<flags, heap, running, engine>>

\* the handler is invoked with its request and calls the repository method
Begin ==
    \E c \in 1..MaxCalls, r \in AsyncRequests :
        /\ Runnable(c)
        /\ calls[c].pc = "start"
        /\ IF r.op = "create"
           THEN /\ Len(heap) < MaxObjs
                /\ \E t \in AsyncTimes :
                      heap' = Append(heap, FeatureFlag(r.key, r.updates.name, "", t))
                /\ Continue(c, [r EXCEPT !.ff = Len(heap) + 1])
           ELSE /\ heap' = heap
                /\ Continue(c, r)
        /\ UNCHANGED <<flags, engine>>

StepCreate ==
    \E c \in 1..MaxCalls :
        LET f == calls[c]
        IN  /\ Runnable(c)
            /\ f.op = "create"
            /\ \/ /\ f.pc = "create:checkId"
                  /\ Continue(c, IF MapHas(flags, heap[f.ff].id)
                                 THEN [f EXCEPT !.pc = "return", !.ret = "Conflict"]
                                 ELSE [f EXCEPT !.pc = "create:checkName"])
                  /\ UNCHANGED <<flags, heap, engine>>
               \/ /\ f.pc = "create:checkName"
                  /\ Continue(c, IF MapHas(flags, heap[f.ff].name)
                                 THEN [f EXCEPT !.pc = "return", !.ret = "Conflict"]
                                 ELSE [f EXCEPT !.pc = "create:setId"])
                  /\ UNCHANGED <<flags, heap, engine>>
               \/ /\ f.pc = "create:setId"
                  /\ flags' = MapSet(flags, heap[f.ff].id, f.ff)
                  /\ Continue(c, [f EXCEPT !.pc = "create:setName"])
                  /\ UNCHANGED <<heap, engine>>
               \/ /\ f.pc = "create:setName"
                  /\ flags' = MapSet(flags, heap[f.ff].name, f.ff)
                  /\ Continue(c, [f EXCEPT !.pc = "return", !.ret = "flag"])
                  /\ UNCHANGED <<heap, engine>>

StepUpdate ==
    \E c \in 1..MaxCalls, t \in AsyncTimes :
        LET f == calls[c]
        IN  /\ Runnable(c)
            /\ f.op = "update"
            /\ \/ /\ f.pc = "update:get"
                  /\ Continue(c, IF MapGet(flags, f.key) = Null
                                 THEN [f EXCEPT !.pc = "return", !.ret = "null"]
                                 ELSE [f EXCEPT !.pc = "update:checkName",
                                                !.found = MapGet(flags, f.key)])
                  /\ UNCHANGED <<flags, heap, engine>>
               \/ /\ f.pc = "update:checkName"
                  /\ Continue(c, IF f.updates.name = heap[f.found].name
                                 THEN [f EXCEPT !.pc = "update:assign"]
                                 ELSE IF MapHas(flags, f.updates.name)
                                 THEN [f EXCEPT !.pc = "return", !.ret = "Conflict"]
                                 ELSE [f EXCEPT !.pc = "update:deleteOld"])
                  /\ UNCHANGED <<flags, heap, engine>>
               \/ /\ f.pc = "update:deleteOld"
                  /\ flags' = MapDelete(flags, heap[f.found].name)
                  /\ Continue(c, [f EXCEPT !.pc = "update:setNew"])
                  /\ UNCHANGED <<heap, engine>>
               \/ /\ f.pc = "update:setNew"
                  /\ flags' = MapSet(flags, f.updates.name, f.found)
                  /\ Continue(c, [f EXCEPT !.pc = "update:assign"])
                  /\ UNCHANGED <<heap, engine>>
               \/ /\ f.pc = "update:assign"
                  /\ heap' = [heap EXCEPT ![f.found] =
                                [ObjectAssign(heap[f.found], f.updates)
                                    EXCEPT !.updatedAt = t]]
                  /\ Continue(c, [f EXCEPT !.pc = "return", !.ret = "flag"])
                  /\ UNCHANGED <<flags, engine>>

StepDelete ==
    \E c \in 1..MaxCalls :
        LET f == calls[c]
        IN  /\ Runnable(c)
            /\ f.op = "delete"
            /\ \/ /\ f.pc = "delete:get"
                  /\ Continue(c, IF MapGet(flags, f.key) = Null
                                 THEN [f EXCEPT !.pc = "return", !.ret = "false"]
                                 ELSE [f EXCEPT !.pc = "delete:deleteId",
                                                !.found = MapGet(flags, f.key)])
                  /\ UNCHANGED <<flags, heap, engine>>
               \/ /\ f.pc = "delete:deleteId"
                  /\ flags' = MapDelete(flags, f.key)
                  /\ Continue(c, [f EXCEPT !.pc = "delete:deleteName"])
                  /\ UNCHANGED <<heap, engine>>
               \/ /\ f.pc = "delete:deleteName"
                  /\ flags' = MapDelete(flags, heap[f.found].name)
                  /\ Continue(c, [f EXCEPT !.pc = "return", !.ret = "true"])
                  /\ UNCHANGED <<heap, engine>>

\* findById, findByName, list and count read the map in one statement
StepRead ==
    \E c \in 1..MaxCalls :
        LET f == calls[c]
            options == [limit |-> DefaultLimit, offset |-> 0, search |-> ""]
        IN  /\ Runnable(c)
            /\ f.pc = "read"
            /\ Continue(c, [f EXCEPT !.pc = "return", !.ret = "read",
                              !.found =
                                 CASE f.op = "findById"   -> findById(flags, f.key)
                                   [] f.op = "findByName" -> findByName(flags, f.key)
                                   [] f.op = "list"  -> Len(list(flags, heap, options))
                                   [] f.op = "count" -> count(flags, heap, options)])
            /\ UNCHANGED <<flags, heap, engine>>

\* the method returns (or throws) to its awaiting caller
Return ==
    \E c \in 1..MaxCalls :
        /\ Runnable(c)
        /\ calls[c].pc = "return"
        /\ Continue(c, Idle)
        /\ UNCHANGED <<flags, heap, engine>>

NextAsync ==
    \/ Request
    \/ Begin
    \/ StepCreate
    \/ StepUpdate
    \/ StepDelete
    \/ StepRead
    \/ Return

SpecAsync == Init /\ [][NextAsync]_vars

TypeOK ==
    /\ Len(heap) <= MaxObjs
    /\ Stored(flags) = 1..Len(heap)

\* ------------------------------------------------------------ models
\* The objects of src/models.  An object is a record of its own fields plus
\* its class, the prototype that provides its methods ("Object" for a plain
\* object).  A value that is null or undefined is Absent; a field that is
\* undefined is a field the record lacks.

\* rules of one flag
MaxRules == 3
\* flags of one batch
MaxBatch == 2

Absent == [absent |-> TRUE]

\* how a call ends: it returns a value or it throws
Returns(v) == [threw |-> FALSE, value |-> v]

Throws(e) == [threw |-> TRUE, error |-> e]

RULE_TYPES == [TENANT |-> "tenant", USER |-> "user", PERCENTAGE |-> "percentage"]

\* the n-th value uuidv4() returns
uuidv4(n) == "uuid-" \o ToString(n)

\* The destructuring default {f = d} and the expressions data.f || d and
\* data.enabled !== false: all yield d for a missing field.  The values given
\* for id, tenantIds, userIds and createdAt are truthy, and a percentage of 0
\* equals its default.
OrDefault(data, f, d) == IF f \in DOMAIN data THEN data[f] ELSE d

\* obj.f read as a value: a missing field reads undefined, which a template
\* literal renders as the string "undefined" and which equals no id in use
Read(obj, f) == IF f \in DOMAIN obj THEN obj[f] ELSE "undefined"

\* Array.prototype.includes
ArrayIncludes(arr, x) == \E i \in 1..Len(arr) : arr[i] = x

\* String.prototype.charCodeAt of a one-character string
charCodeAt(c) ==
    CASE c = "a" -> 97
      [] c = "b" -> 98
      [] c = "A" -> 65
      [] c = "B" -> 66
      [] c = ":" -> 58
      [] c = "d" -> 100
      [] c = "e" -> 101
      [] c = "f" -> 102
      [] c = "i" -> 105
      [] c = "n" -> 110
      [] c = "u" -> 117
      [] c = "g" -> 103
      [] c = "l" -> 108
      [] c = "x" -> 120

\* The numbers of the model are integers, and NaN is the one value of a
\* JavaScript number that is none: it equals nothing and compares false
NaN == -1000000

\* x < y
Less(x, y) == x # NaN /\ y # NaN /\ x < y

\* the signed 32-bit integer whose two 16-bit halves are hi and lo
ToInt32(hi, lo) == ((IF hi >= 32768 THEN hi - 65536 ELSE hi) * 65536) + lo

\* One round of the loop of _hash: ((hash << 5) - hash) + char, then
\* hash & hash.  The shift wraps to 32 bits, the subtraction and the addition
\* are exact, and the & converts their result to a signed 32-bit integer: the
\* round is computed on the two 16-bit halves of hash.
hashRound_plusHash(hash, char) ==
    LET lo  == hash % 65536
        hi  == (hash \div 65536) % 65536
        slo == (lo * 32) % 65536
        shi == ((hi * 32) + ((lo * 32) \div 65536)) % 65536
        dlo == (slo + lo) + char
        dhi == (shi + hi) + (dlo \div 65536)
    IN  ToInt32(dhi % 65536, dlo % 65536)

hashRound(hash, char) ==
    LET lo  == hash % 65536
        hi  == (hash \div 65536) % 65536
        slo == (lo * 32) % 65536
        shi == ((hi * 32) + ((lo * 32) \div 65536)) % 65536
        dlo == (slo - lo) + char
        dhi == (shi - hi) + (dlo \div 65536)
    IN  ToInt32(dhi % 65536, dlo % 65536)

RECURSIVE hashLoop(_, _, _)
hashLoop(str, i, hash) ==
    IF i > Len(str) THEN hash
    ELSE hashLoop(str, i + 1, hashRound(hash, charCodeAt(str[i])))

\* the least signed 32-bit integer
MinInt32 == -2147483647 - 1

\* Math.abs of a signed 32-bit integer: a number between 0 and 2^31, kept as
\* its two 16-bit halves, since 2^31 is no 32-bit integer
MathAbs(x) ==
    IF x = MinInt32 THEN [hi |-> 32768, lo |-> 0]
    ELSE [hi |-> (IF x < 0 THEN -x ELSE x) \div 65536,
          lo |-> (IF x < 0 THEN -x ELSE x) % 65536]

\* n % d for a number kept as its halves and a small d
Remainder(n, d) == (((n.hi % d) * (65536 % d)) + n.lo) % d

\* PercentageRule._hash of the characters of a string
_hash(str) == MathAbs(hashLoop(str, 1, 0))

\* Math.max and Math.min: NaN if an argument is NaN
MathMax(x, y) == IF x = NaN \/ y = NaN THEN NaN ELSE IF x > y THEN x ELSE y

MathMin(x, y) == IF x = NaN \/ y = NaN THEN NaN ELSE IF x < y THEN x ELSE y

\* new Rule({id, type, enabled, createdAt}); uuid and now are what uuidv4()
\* and new Date() return when a default is evaluated
Rule(data, uuid, now) ==
    [class |-> "Rule",
     id |-> OrDefault(data, "id", uuid),
     type |-> Read(data, "type"),
     enabled |-> OrDefault(data, "enabled", TRUE),
     createdAt |-> OrDefault(data, "createdAt", now)]

TenantRule(data, uuid, now) ==
    [class |-> "TenantRule",
     id |-> OrDefault(data, "id", uuid),
     type |-> RULE_TYPES.TENANT,
     enabled |-> OrDefault(data, "enabled", TRUE),
     createdAt |-> OrDefault(data, "createdAt", now),
     tenantIds |-> OrDefault(data, "tenantIds", <<>>)]

UserRule(data, uuid, now) ==
    [class |-> "UserRule",
     id |-> OrDefault(data, "id", uuid),
     type |-> RULE_TYPES.USER,
     enabled |-> OrDefault(data, "enabled", TRUE),
     createdAt |-> OrDefault(data, "createdAt", now),
     userIds |-> OrDefault(data, "userIds", <<>>)]

PercentageRule(data, uuid, now) ==
    [class |-> "PercentageRule",
     id |-> OrDefault(data, "id", uuid),
     type |-> RULE_TYPES.PERCENTAGE,
     enabled |-> OrDefault(data, "enabled", TRUE),
     createdAt |-> OrDefault(data, "createdAt", now),
     percentage |-> MathMax(0, MathMin(100, OrDefault(data, "percentage", 0)))]

\* a tenant rule that does not look at its enabled field
TenantRule_evaluate_ignoresEnabled(rule, context) ==
    ArrayIncludes(rule.tenantIds, Read(context, "tenantId"))

TenantRule_evaluate(rule, context) ==
    IF ~rule.enabled THEN FALSE
    ELSE ArrayIncludes(rule.tenantIds, Read(context, "tenantId"))

UserRule_evaluate(rule, context) ==
    IF ~rule.enabled THEN FALSE
    ELSE ArrayIncludes(rule.userIds, Read(context, "userId"))

\* the characters of `${context.userId}:${context.tenantId}`
HashInput(context) ==
    Chars(Read(context, "userId")) \o <<":">> \o Chars(Read(context, "tenantId"))

\* a percentage rule that compares the wrong way round
PercentageRule_evaluate_reversed(rule, context) ==
    IF ~rule.enabled \/ rule.percentage = 0 THEN FALSE
    ELSE IF rule.percentage = 100 THEN TRUE
    ELSE LET hash   == _hash(HashInput(context))
             bucket == Remainder(hash, 100)
         IN  Less(rule.percentage, bucket)

\* a percentage rule whose bucket moves with the creation time of the rule
PercentageRule_evaluate_shiftedByAge(rule, context) ==
    IF ~rule.enabled \/ rule.percentage = 0 THEN FALSE
    ELSE IF rule.percentage = 100 THEN TRUE
    ELSE LET hash   == _hash(HashInput(context))
             bucket == Remainder(hash, 100) + rule.createdAt
         IN  Less(bucket, rule.percentage)

\* a percentage rule without the two shortcuts that compares the hash, not
\* the bucket, with the percentage
PercentageRule_evaluate_noModulo(rule, context) ==
    IF ~rule.enabled THEN FALSE
    ELSE LET hash == _hash(HashInput(context))
         IN  hash.hi = 0 /\ Less(hash.lo, rule.percentage)

PercentageRule_evaluate(rule, context) ==
    IF ~rule.enabled \/ rule.percentage = 0 THEN FALSE
    ELSE IF rule.percentage = 100 THEN TRUE
    ELSE LET hash   == _hash(HashInput(context))
             bucket == Remainder(hash, 100)
         IN  Less(bucket, rule.percentage)

\* x instanceof Rule
InstanceOfRule(x) ==
    x # Absent /\ x.class \in {"Rule", "TenantRule", "UserRule", "PercentageRule"}

\* rule.evaluate(context) for a rule that is an object: the method of its
\* class.  The base class throws; a plain object has no such method.
CallEvaluate(rule, context) ==
    CASE rule.class = "TenantRule"     -> Returns(TenantRule_evaluate(rule, context))
      [] rule.class = "UserRule"       -> Returns(UserRule_evaluate(rule, context))
      [] rule.class = "PercentageRule" -> Returns(PercentageRule_evaluate(rule, context))
      [] rule.class = "Rule" -> Throws("evaluate() must be implemented by subclasses")
      [] OTHER               -> Throws("rule.evaluate is not a function")

\* rule.toJSON() of a Rule instance
Rule_toJSON(rule) ==
    LET base == [class |-> "Object", id |-> rule.id, type |-> rule.type,
                 enabled |-> rule.enabled, createdAt |-> rule.createdAt]
    IN  CASE rule.class = "TenantRule"     -> base @@ [tenantIds |-> rule.tenantIds]
          [] rule.class = "UserRule"       -> base @@ [userIds |-> rule.userIds]
          [] rule.class = "PercentageRule" -> base @@ [percentage |-> rule.percentage]
          [] OTHER                         -> base

\* a Rule.fromJSON that takes a rule of an unknown type for a tenant rule
Rule_fromJSON_unknownAsTenant(data, uuid, now) ==
    IF data = Absent THEN Throws("TypeError")
    ELSE LET type == Read(data, "type")
             base == [id |-> OrDefault(data, "id", uuid),
                      enabled |-> OrDefault(data, "enabled", TRUE),
                      createdAt |-> OrDefault(data, "createdAt", now)]
         IN  CASE type = RULE_TYPES.USER ->
                    Returns(UserRule(
                        base @@ [userIds |-> OrDefault(data, "userIds", <<>>)],
                        uuid, now))
               [] type = RULE_TYPES.PERCENTAGE ->
                    Returns(PercentageRule(
                        base @@ [percentage |-> OrDefault(data, "percentage", 0)],
                        uuid, now))
               [] OTHER ->
                    Returns(TenantRule(
                        base @@ [tenantIds |-> OrDefault(data, "tenantIds", <<>>)],
                        uuid, now))

\* Rule.fromJSON(data)
Rule_fromJSON(data, uuid, now) ==
    IF data = Absent THEN Throws("TypeError")
    ELSE LET type == Read(data, "type")
             base == [id |-> OrDefault(data, "id", uuid),
                      enabled |-> OrDefault(data, "enabled", TRUE),
                      createdAt |-> OrDefault(data, "createdAt", now)]
         IN  CASE type = RULE_TYPES.TENANT ->
                    Returns(TenantRule(
                        base @@ [tenantIds |-> OrDefault(data, "tenantIds", <<>>)],
                        uuid, now))
               [] type = RULE_TYPES.USER ->
                    Returns(UserRule(
                        base @@ [userIds |-> OrDefault(data, "userIds", <<>>)],
                        uuid, now))
               [] type = RULE_TYPES.PERCENTAGE ->
                    Returns(PercentageRule(
                        base @@ [percentage |-> OrDefault(data, "percentage", 0)],
                        uuid, now))
               [] OTHER -> Throws("Unknown rule type")

\* The plain rules of a constructor call that draw a uuid, up to the i-th.
DrawsUuid(ruleData) ==
    ruleData # Absent /\ ~InstanceOfRule(ruleData) /\ "id" \notin DOMAIN ruleData

\* new FeatureFlag(data) when uuidv4() has returned n values before and the
\* clock reads now.  The defaults are evaluated first, then the rules are
\* converted in order; an error of a conversion leaves the constructor.
NewFeatureFlag(data, n, now) ==
    LET rules    == OrDefault(data, "rules", <<>>)
        first    == IF "id" \in DOMAIN data THEN n ELSE n + 1
        drawn(i) == first + Cardinality({j \in 1..i : DrawsUuid(rules[j])})
        conv(i)  == IF InstanceOfRule(rules[i]) THEN Returns(rules[i])
                    ELSE Rule_fromJSON(rules[i], uuidv4(drawn(i)), now)
        failed   == {i \in 1..Len(rules) : conv(i).threw}
    IN  IF failed # {}
        THEN Throws(conv(CHOOSE i \in failed : \A j \in failed : i <= j).error)
        ELSE Returns(
               [id |-> OrDefault(data, "id", uuidv4(n + 1)),
                name |-> Read(data, "name"),
                description |-> OrDefault(data, "description", ""),
                enabled |-> OrDefault(data, "enabled", FALSE),
                rules |-> [i \in 1..Len(rules) |-> conv(i).value],
                createdAt |-> OrDefault(data, "createdAt", now),
                updatedAt |-> OrDefault(data, "updatedAt", now)])

\* flag.toJSON(): a rule with a toJSON method is serialized, any other entry
\* is passed on as it is
FeatureFlag_toJSON(flag) ==
    [id |-> flag.id, name |-> flag.name, description |-> flag.description,
     enabled |-> flag.enabled,
     rules |-> [i \in 1..Len(flag.rules) |->
                  IF InstanceOfRule(flag.rules[i])
                  THEN Rule_toJSON(flag.rules[i])
                  ELSE flag.rules[i]],
     createdAt |-> flag.createdAt, updatedAt |-> flag.updatedAt]

\* FeatureFlag.fromJSON(data): the body switches on data.type and builds a
\* rule from data.id, the variant field and data.enabled
FeatureFlag_fromJSON(data, uuid, now) ==
    IF data = Absent THEN Throws("TypeError")
    ELSE LET type == Read(data, "type")
             base == [id |-> OrDefault(data, "id", uuid),
                      enabled |-> OrDefault(data, "enabled", TRUE)]
         IN  CASE type = RULE_TYPES.TENANT ->
                    Returns(TenantRule(
                        base @@ [tenantIds |-> OrDefault(data, "tenantIds", <<>>)],
                        uuid, now))
               [] type = RULE_TYPES.USER ->
                    Returns(UserRule(
                        base @@ [userIds |-> OrDefault(data, "userIds", <<>>)],
                        uuid, now))
               [] type = RULE_TYPES.PERCENTAGE ->
                    Returns(PercentageRule(
                        base @@ [percentage |-> OrDefault(data, "percentage", 0)],
                        uuid, now))
               [] OTHER -> Throws("Unknown rule type")

\* ------------------------------------------------------------ engine
\* new EvaluationResult({enabled, matchedRule, fallbackToDefault}); the
\* measured evaluationTime is left out
EvaluationResult(enabled, matchedRule, fallbackToDefault) ==
    [enabled |-> enabled, matchedRule |-> matchedRule,
     fallbackToDefault |-> fallbackToDefault]

\* !x for a field of an object: undefined and the empty string are falsy
Falsy(obj, f) == f \notin DOMAIN obj \/ obj[f] = ""

\* how a call of the engine ends, and the positions of the rules whose
\* evaluate it has called, in the order of the calls
Returned(v, consulted) == [threw |-> FALSE, value |-> v, consulted |-> consulted]

Thrown(e, consulted) == [threw |-> TRUE, error |-> e, consulted |-> consulted]

\* a validation that accepts a context without userId
_validateEvaluationInputs_noUserId(featureFlag, context) ==
    IF featureFlag = Absent THEN Throws("Feature flag is required")
    ELSE IF context = Absent THEN Throws("Evaluation context is required")
    ELSE IF Falsy(context, "tenantId")
         THEN Throws("Tenant ID is required in evaluation context")
    ELSE IF "rules" \notin DOMAIN featureFlag
         THEN Throws("Feature flag rules must be an array")
    ELSE Returns(TRUE)

_validateEvaluationInputs(featureFlag, context) ==
    IF featureFlag = Absent THEN Throws("Feature flag is required")
    ELSE IF context = Absent THEN Throws("Evaluation context is required")
    ELSE IF Falsy(context, "userId")
         THEN Throws("User ID is required in evaluation context")
    ELSE IF Falsy(context, "tenantId")
         THEN Throws("Tenant ID is required in evaluation context")
    ELSE IF "rules" \notin DOMAIN featureFlag
         THEN Throws("Feature flag rules must be an array")
    ELSE Returns(TRUE)

\* The loop of _evaluateRules from the i-th rule on.  For an entry that is
\* null the call rule.evaluate throws inside the try, and the handler, which
\* reads rule.id, throws again: that error leaves the loop.
RECURSIVE evaluateRulesFrom(_, _, _, _)
evaluateRulesFrom(rules, context, i, consulted) ==
    IF i > Len(rules) THEN Returned(Absent, consulted)
    ELSE IF rules[i] = Absent THEN Thrown("TypeError", consulted)
    ELSE LET call == CallEvaluate(rules[i], context)
         IN  IF ~call.threw /\ call.value
             THEN Returned(rules[i], Append(consulted, i))
             ELSE evaluateRulesFrom(rules, context, i + 1, Append(consulted, i))

\* a scan that goes through every rule and returns the last one that matches
_evaluateRules_lastMatch(rules, context) ==
    LET hit(i) == ~CallEvaluate(rules[i], context).threw
                    /\ CallEvaluate(rules[i], context).value
        hits   == {i \in 1..Len(rules) : hit(i)}
        all    == [i \in 1..Len(rules) |-> i]
    IN  IF hits = {} THEN Returned(Absent, all)
        ELSE Returned(rules[CHOOSE i \in hits : \A j \in hits : j <= i], all)

\* a scan that the first rule whose evaluate throws brings to an end
_evaluateRules_abortOnFault(rules, context) ==
    LET stop(i) == CallEvaluate(rules[i], context).threw
                     \/ CallEvaluate(rules[i], context).value
        stops   == {i \in 1..Len(rules) : stop(i)}
        k       == CHOOSE i \in stops : \A j \in stops : i <= j
    IN  IF stops = {} THEN Returned(Absent, [i \in 1..Len(rules) |-> i])
        ELSE IF CallEvaluate(rules[k], context).threw
             THEN Returned(Absent, [i \in 1..k |-> i])
        ELSE Returned(rules[k], [i \in 1..k |-> i])

_evaluateRules(rules, context) == evaluateRulesFrom(rules, context, 1, <<>>)

\* a try block whose fallback is always disabled
evaluateTry_fallbackDisabled(featureFlag, context) ==
    IF featureFlag = Absent \/ context = Absent THEN Thrown("TypeError", <<>>)
    ELSE LET valid == _validateEvaluationInputs(featureFlag, context)
             scan  == _evaluateRules(featureFlag.rules, context)
         IN  IF valid.threw THEN Thrown(valid.error, <<>>)
             ELSE IF scan.threw THEN scan
             ELSE IF scan.value # Absent
                  THEN Returned(EvaluationResult(TRUE, scan.value, FALSE),
                                scan.consulted)
             ELSE Returned(EvaluationResult(FALSE, Absent, TRUE), scan.consulted)

\* the try block of evaluate: the first log call reads featureFlag.id and
\* context.userId before the inputs are validated
evaluateTry(featureFlag, context) ==
    IF featureFlag = Absent \/ context = Absent THEN Thrown("TypeError", <<>>)
    ELSE LET valid == _validateEvaluationInputs(featureFlag, context)
             scan  == _evaluateRules(featureFlag.rules, context)
         IN  IF valid.threw THEN Thrown(valid.error, <<>>)
             ELSE IF scan.threw THEN scan
             ELSE IF scan.value # Absent
                  THEN Returned(EvaluationResult(TRUE, scan.value, FALSE),
                                scan.consulted)
             ELSE Returned(EvaluationResult(featureFlag.enabled, Absent, TRUE),
                           scan.consulted)

\* evaluate: the try block and its handler, which reads featureFlag.id and
\* context.userId for the log and featureFlag.enabled for the safe result
evaluate(featureFlag, context) ==
    LET try == evaluateTry(featureFlag, context)
    IN  IF ~try.threw THEN try
        ELSE IF featureFlag = Absent \/ context = Absent
             THEN Thrown("TypeError", try.consulted)
        ELSE Returned(EvaluationResult(featureFlag.enabled, Absent, TRUE),
                      try.consulted)

\* a batch that returns its results in reverse order
evaluateBatch_reversed(featureFlags, context) ==
    LET n       == Len(featureFlags)
        results == [i \in 1..n |-> evaluate(featureFlags[n + 1 - i], context)]
        failed  == {i \in 1..n : results[i].threw}
    IN  IF context = Absent THEN Throws("TypeError")
        ELSE IF failed # {} THEN Throws("TypeError")
        ELSE Returns([i \in 1..n |-> results[i].value])

\* evaluateBatch: the log call reads context.userId, then evaluate is mapped
\* over the flags; an error of one evaluate leaves the batch
evaluateBatch(featureFlags, context) ==
    LET results == [i \in 1..Len(featureFlags) |-> evaluate(featureFlags[i], context)]
        failed  == {i \in 1..Len(featureFlags) : results[i].threw}
    IN  IF context = Absent THEN Throws("TypeError")
        ELSE IF failed # {}
             THEN Throws(results[CHOOSE i \in failed : \A j \in failed : i <= j].error)
        ELSE Returns([i \in 1..Len(featureFlags) |-> results[i].value])

\* ------------------------------------------------------------ engine calls
\* The calls made to the models and to the evaluation engine, one per
\* behaviour: the initial state holds the call and its arguments, the action
\* of the called function stores how the call ends.

UserIds == {"a", "b"}

TenantIds == {"A", "B"}

\* a context is absent, or has each field set, empty or missing
Contexts ==
    {Absent}
      \cup [userId : UserIds \cup {""}, tenantId : TenantIds \cup {""}]
      \cup [userId : UserIds]
      \cup [tenantId : TenantIds]

\* the id given to the rule at position i of a list
RuleId(i) == "r" \o ToString(i)

\* the rules of the subclasses at position i
SubclassRules(i) ==
    {TenantRule([id |-> RuleId(i), tenantIds |-> <<"A">>, enabled |-> e,
                 createdAt |-> 0], "", 0) : e \in BOOLEAN}
      \cup {UserRule([id |-> RuleId(i), userIds |-> <<"a">>, createdAt |-> 0], "", 0),
            PercentageRule([id |-> RuleId(i), percentage |-> 50, createdAt |-> 0],
                           "", 0)}

\* the rules whose evaluate throws: an instance of the base class, and a
\* plain object in the form the API accepts, which has no evaluate method
FaultingRules(i) ==
    {Rule([id |-> RuleId(i), type |-> "user", createdAt |-> 0], "", 0),
     [class |-> "Object", type |-> "user", userIds |-> <<"a">>, enabled |-> TRUE]}

\* the plain objects handed to Rule.fromJSON and, in a rules list, to the
\* constructor of FeatureFlag: of a known type with and without id, of an
\* unknown type, without type
RuleData ==
    {[class |-> "Object", type |-> "tenant", tenantIds |-> <<"A">>],
     [class |-> "Object", type |-> "user", userIds |-> <<"a">>, id |-> "r9",
      enabled |-> FALSE, createdAt |-> 0],
     [class |-> "Object", type |-> "percentage", percentage |-> 150],
     [class |-> "Object", type |-> "geo", tenantIds |-> <<"A">>],
     [class |-> "Object", enabled |-> TRUE]}

\* the rules of a request body once the rule schema has validated it: plain
\* objects with the type, the variant field and enabled
ApiRules ==
    {[class |-> "Object", type |-> "tenant", tenantIds |-> <<"A">>, enabled |-> TRUE],
     [class |-> "Object", type |-> "user", userIds |-> <<"a">>, enabled |-> TRUE],
     [class |-> "Object", type |-> "percentage", percentage |-> 50, enabled |-> TRUE]}

\* the entries of the rules list of a constructor call: the plain objects of
\* RuleData and a rule instance
ConstructorRules(i) ==
    RuleData \cup {TenantRule([id |-> RuleId(i), tenantIds |-> <<"A">>,
                               createdAt |-> 0], "", 0)}

\* the rules of a kind of list at position i
RulesAt(kind, i) ==
    CASE kind = "subclass"    -> SubclassRules(i)
      [] kind = "engine"      -> SubclassRules(i) \cup FaultingRules(i)
      [] kind = "constructor" -> ConstructorRules(i)
      [] kind = "api"         -> ApiRules

\* the lists of n rules of a kind, and those of at most MaxRules rules
RECURSIVE RuleLists(_, _)
RuleLists(kind, n) ==
    IF n = 0 THEN {<<>>}
    ELSE {Append(rs, r) : rs \in RuleLists(kind, n - 1), r \in RulesAt(kind, n)}

ListsOf(kind) == UNION {RuleLists(kind, n) : n \in 0..MaxRules}

\* a flag object; without rules it is one whose rules field is not an array
FlagWith(enabled, rules) ==
    [id |-> "a", name |-> "a", description |-> "", enabled |-> enabled,
     rules |-> rules, createdAt |-> 0, updatedAt |-> 1]

FlagWithoutRules(enabled) ==
    [id |-> "a", name |-> "a", description |-> "", enabled |-> enabled,
     createdAt |-> 0, updatedAt |-> 1]

EngineFlags ==
    {Absent}
      \cup {FlagWith(e, rs) : e \in BOOLEAN, rs \in ListsOf("engine")}
      \cup {FlagWithoutRules(e) : e \in BOOLEAN}

\* the flags of the batches: absent, matching by its first or by its second
\* rule, without rules, without a rules array
BatchFlags ==
    {Absent,
     FlagWith(FALSE, <<TenantRule([id |-> "r1", tenantIds |-> <<"A">>,
                                   createdAt |-> 0], "", 0)>>),
     FlagWith(FALSE, <<Rule([id |-> "r1", type |-> "user", createdAt |-> 0], "", 0),
                       UserRule([id |-> "r2", userIds |-> <<"a">>,
                                 createdAt |-> 0], "", 0)>>),
     FlagWith(TRUE, <<>>),
     FlagWithoutRules(TRUE)}

Batches == UNION {[1..n -> BatchFlags] : n \in 0..MaxBatch}

FlagData ==
    {[name |-> "a", enabled |-> TRUE, rules |-> rs] : rs \in ListsOf("constructor")}
      \cup {[id |-> "a", name |-> "a"]}

\* the flags that are serialized: their rules are instances of the subclasses
SerializedFlags ==
    {FlagWith(e, rs) : e \in BOOLEAN, rs \in ListsOf("subclass")}

Pending == [pending |-> TRUE]

\* calls of evaluate on one rule
MaxEvaluations == 2

\* the contexts handed to a rule: objects with each field set, empty or
\* missing, and the pair whose hash is the least 32-bit integer
RuleContexts ==
    (Contexts \ {Absent}) \cup {[userId |-> "alxg", tenantId |-> "lnb"]}

\* the membership lists over a set of ids
MemberLists(ids) ==
    {<<>>} \cup {<<x>> : x \in ids}
      \cup {<<x, y>> : x \in ids, y \in ids}

\* the percentages handed to the constructor of PercentageRule
PercentageInputs == {NaN, -1000, -1, 0, 1, 50, 99, 100, 101, 1000}

\* the percentage rules that are evaluated: every stored percentage of the
\* interval and NaN, under two ids and two creation times
PercentageRules ==
    {PercentageRule([id |-> i, percentage |-> p, enabled |-> e, createdAt |-> t],
                    "", 0) :
        i \in {RuleId(1), RuleId(2)}, p \in (0..100) \cup {NaN}, e \in BOOLEAN,
        t \in Times}

\* the rules that are evaluated on their own
EvaluatedRules ==
    {TenantRule([id |-> RuleId(1), tenantIds |-> l, enabled |-> e, createdAt |-> 0],
                "", 0) : l \in MemberLists(TenantIds), e \in BOOLEAN}
      \cup {UserRule([id |-> RuleId(1), userIds |-> l, enabled |-> e, createdAt |-> 0],
                      "", 0) : l \in MemberLists(UserIds), e \in BOOLEAN}
      \cup PercentageRules

\* the data handed to new PercentageRule: with and without a percentage
PercentageData ==
    {[percentage |-> p] : p \in PercentageInputs} \cup {[enabled |-> TRUE]}

EngineCalls ==
    {[op |-> "evaluate", featureFlag |-> f, context |-> c, out |-> Pending] :
        f \in EngineFlags, c \in Contexts}
      \cup {[op |-> "evaluateBatch", featureFlags |-> fs, context |-> c,
             out |-> Pending] : fs \in Batches, c \in Contexts}
      \cup {[op |-> "Rule.fromJSON", data |-> d, out |-> Pending] :
              d \in RuleData \cup {Absent}}
      \cup {[op |-> "new FeatureFlag", data |-> d, out |-> Pending] : d \in FlagData}
      \cup {[op |-> "FeatureFlag.fromJSON", flag |-> f, out |-> Pending] :
              f \in SerializedFlags}
      \cup {[op |-> "rule.evaluate", rule |-> r, context |-> c, calls |-> 0,
             now |-> 0, out |-> Pending] : r \in EvaluatedRules, c \in RuleContexts}
      \cup {[op |-> "new PercentageRule", data |-> d, out |-> Pending] :
              d \in PercentageData}

InitEngine ==
    /\ flags = <<>>
    /\ heap = <<>>
    /\ calls = [c \in 1..MaxCalls |-> Idle]
    /\ running = 0
    /\ engine \in EngineCalls

\* the clock reading and the number of uuids drawn before a call
EngineNow == 1

UuidsDrawn == 0

Evaluate ==
    /\ engine.op = "evaluate"
    /\ engine.out = Pending
    /\ engine' = [engine EXCEPT !.out = evaluate(engine.featureFlag, engine.context)]
    /\ UNCHANGED <<flags, heap, calls, running>>

EvaluateBatch ==
    /\ engine.op = "evaluateBatch"
    /\ engine.out = Pending
    /\ engine' = [engine EXCEPT
                    !.out = evaluateBatch(engine.featureFlags, engine.context)]
    /\ UNCHANGED <<flags, heap, calls, running>>

RuleFromJSON ==
    /\ engine.op = "Rule.fromJSON"
    /\ engine.out = Pending
    /\ engine' = [engine EXCEPT
                    !.out = Rule_fromJSON(engine.data, uuidv4(UuidsDrawn + 1), EngineNow)]
    /\ UNCHANGED <<flags, heap, calls, running>>

Construct ==
    /\ engine.op = "new FeatureFlag"
    /\ engine.out = Pending
    /\ engine' = [engine EXCEPT
                    !.out = NewFeatureFlag(engine.data, UuidsDrawn, EngineNow)]
    /\ UNCHANGED <<flags, heap, calls, running>>

\* FeatureFlag.fromJSON(flag.toJSON())
RoundTrip ==
    /\ engine.op = "FeatureFlag.fromJSON"
    /\ engine.out = Pending
    /\ engine' = [engine EXCEPT
                    !.out = FeatureFlag_fromJSON(FeatureFlag_toJSON(engine.flag),
                                                 uuidv4(UuidsDrawn + 1), EngineNow)]
    /\ UNCHANGED <<flags, heap, calls, running>>

\* rule.evaluate(context), called again and again at any time
RuleEvaluate ==
    \E t \in Times :
        /\ engine.op = "rule.evaluate"
        /\ engine.calls < MaxEvaluations
        /\ engine' = [engine EXCEPT
                        !.out = CallEvaluate(engine.rule, engine.context),
                        !.calls = @ + 1,
                        !.now = t]
        /\ UNCHANGED <<flags, heap, calls, running>>

\* new PercentageRule(data)
ConstructPercentage ==
    /\ engine.op = "new PercentageRule"
    /\ engine.out = Pending
    /\ engine' = [engine EXCEPT
                    !.out = Returns(PercentageRule(engine.data, uuidv4(UuidsDrawn + 1),
                                                   EngineNow))]
    /\ UNCHANGED <<flags, heap, calls, running>>

NextEngine ==
    \/ Evaluate
    \/ EvaluateBatch
    \/ RuleFromJSON
    \/ Construct
    \/ RoundTrip
    \/ RuleEvaluate
    \/ ConstructPercentage

SpecEngine == InitEngine /\ [][NextEngine]_vars

\* ------------------------------------------------------------ requests
\* The requests of the API against the repository and the engine.  The heap
\* holds the flags as the constructor builds them, with enabled and rules.
\* Every flag is named "a", so a create succeeds on the empty store only and
\* the uuids it draws are the first ones.

\* rules of one request body
MaxBodyRules == 2

\* the rules lists of the request bodies
BodyRules == UNION {RuleLists("api", n) : n \in 0..MaxBodyRules}

\* the validated bodies of POST /feature-flags and PUT /feature-flags/:id
CreateBodies ==
    {[name |-> "a", description |-> "", enabled |-> e, rules |-> rs] :
        e \in BOOLEAN, rs \in BodyRules}

UpdateBodies ==
    {[rules |-> rs] : rs \in BodyRules}
      \cup {[enabled |-> e] : e \in BOOLEAN}
      \cup {[enabled |-> e, rules |-> rs] : e \in BOOLEAN, rs \in BodyRules}

\* the clock reading of the requests
RequestTimes == {1}

\* the ids of the requests: the id of the flag and one no flag has
RequestIds == {uuidv4(1), "b"}

\* the validated bodies of POST /feature-flags/:id/evaluate
RequestContexts == [userId : UserIds, tenantId : TenantIds]

InitStore ==
    /\ flags = <<>>
    /\ heap = <<>>
    /\ calls = [c \in 1..MaxCalls |-> Idle]
    /\ running = 0
    /\ engine = NoCall

\* createFeatureFlag: new FeatureFlag(req.body), then repository.create
createFeatureFlag ==
    \E body \in CreateBodies, t \in RequestTimes :
        LET made == NewFeatureFlag(body, 0, t)
            o    == create(flags, Append(heap, made.value), Len(heap) + 1)
        IN  /\ ~made.threw
            /\ flags' = CollectMap(o.flags)
            /\ heap' = CollectHeap(o.flags, o.heap)
            /\ UNCHANGED <<calls, running, engine>>

\* updateFeatureFlag: repository.update(id, req.body)
updateFeatureFlag ==
    \E id \in RequestIds, body \in UpdateBodies, t \in RequestTimes :
        LET o == update(flags, heap, id, body, t)
        IN  /\ flags' = CollectMap(o.flags)
            /\ heap' = CollectHeap(o.flags, o.heap)
            /\ UNCHANGED <<calls, running, engine>>

\* evaluateFeatureFlag: repository.findById(id), then engine.evaluate with
\* the context built from the body; the response is kept
evaluateFeatureFlag ==
    \E id \in RequestIds, context \in RequestContexts :
        LET featureFlag == findById(flags, id)
        IN  /\ engine' = IF featureFlag = Null
                         THEN [op |-> "evaluateFeatureFlag", status |-> 404]
                         ELSE [op |-> "evaluateFeatureFlag", status |-> 200,
                               out |-> evaluate(heap[featureFlag], context)]
            /\ UNCHANGED <<flags, heap, calls, running>>

NextStore ==
    \/ createFeatureFlag
    \/ updateFeatureFlag
    \/ evaluateFeatureFlag

SpecStore == InitStore /\ [][NextStore]_vars

\* ------------------------------------------------------------ properties
NoDuplicates(seq) == \A i, j \in 1..Len(seq) : seq[i] = seq[j] => i = j

\* the flag objects a caller hands to create in the current state
NewFlags == {FeatureFlag(id, name, d, t) :
                id \in Keys, name \in Keys, d \in Descriptions, t \in Times}

\* create applied to the current state and a newly constructed flag
Created(obj) == create(flags, Append(heap, obj), Len(heap) + 1)

\* C1: every stored flag is found under its id and under its name, both
\* lookups return that very object, and every key of the map is the id or the
\* name of the flag it maps to.
DualKeyInvariant ==
    /\ \A f \in Stored(flags) :
          /\ findById(flags, heap[f].id) = f
          /\ findByName(flags, heap[f].name) = f
    /\ \A i \in 1..Len(flags) :
          flags[i].key \in {heap[flags[i].val].id, heap[flags[i].val].name}

\* C2: no two distinct flags reachable through the repository share an id, and
\* no two share a name.
Uniqueness ==
    \A f, g \in Stored(flags) :
        f # g => /\ heap[f].id # heap[g].id
                 /\ heap[f].name # heap[g].name

\* C3: when delete(k) returns true for the flag it found, neither that flag's
\* id nor its name has an entry afterwards.
DeleteRemovesBothKeys ==
    \A k \in Keys :
        LET o == delete(flags, heap, k)
        IN  o.ret = "true" =>
              /\ findById(o.flags, heap[o.ref].id) = Null
              /\ findByName(o.flags, heap[o.ref].name) = Null

\* C4: after a successful update(id, updates) that changes the name, the old
\* name resolves to nothing, the new name and the id resolve to the flag, and
\* the flag's name field is the new name.
RenamePostcondition ==
    \A k \in Keys, u \in UpdateInputs, t \in Times :
        LET f == MapGet(flags, k)
            o == update(flags, heap, k, u, t)
        IN  (f # Null /\ "name" \in DOMAIN u /\ u.name # heap[f].name
               /\ o.ret = "flag") =>
              /\ findByName(o.flags, heap[f].name) = Null
              /\ findByName(o.flags, u.name) = f
              /\ findById(o.flags, k) = f
              /\ o.heap[f].name = u.name

\* C5: an update whose new name differs from the flag's name and already has
\* an entry fails with Conflict and changes neither the map nor any field of
\* any flag.
UpdateConflictIsAtomic ==
    \A k \in Keys, u \in UpdateInputs, t \in Times :
        LET f == MapGet(flags, k)
            o == update(flags, heap, k, u, t)
        IN  (f # Null /\ "name" \in DOMAIN u /\ u.name # heap[f].name
               /\ MapHas(flags, u.name)) =>
              /\ o.ret = "Conflict"
              /\ o.flags = flags
              /\ o.heap = heap

\* C5, witness: some update of a stored flag collides with another entry and
\* would also have changed a field other than the name.
UpdateConflictHappens ==
    \E k \in Keys, u \in UpdateInputs, t \in Times :
        /\ MapGet(flags, k) # Null
        /\ "name" \in DOMAIN u
        /\ "description" \in DOMAIN u
        /\ u.name # heap[MapGet(flags, k)].name
        /\ u.description # heap[MapGet(flags, k)].description
        /\ t # heap[MapGet(flags, k)].updatedAt
        /\ MapGet(flags, u.name) # MapGet(flags, k)
        /\ update(flags, heap, k, u, t).ret = "Conflict"

\* C6: create of a flag whose id or name already has an entry fails with
\* Conflict, leaves the map and the stored flags as they were, so that every
\* lookup returns what it returned before, and the rejected flag is found under
\* neither of its keys.
CreateRejectsDuplicates ==
    \A obj \in NewFlags :
        LET ff == Len(heap) + 1
            o  == Created(obj)
        IN  (MapHas(flags, obj.id) \/ MapHas(flags, obj.name)) =>
              /\ o.ret = "Conflict"
              /\ o.flags = flags
              /\ \A r \in 1..Len(heap) : o.heap[r] = heap[r]
              /\ \A k \in Keys : /\ findById(o.flags, k) = findById(flags, k)
                                 /\ findByName(o.flags, k) = findByName(flags, k)
              /\ findById(o.flags, obj.id) # ff
              /\ findByName(o.flags, obj.name) # ff

\* C6, witness: a flag with a free id and a taken name is rejected.
CreateConflictHappens ==
    \E obj \in NewFlags :
        /\ ~MapHas(flags, obj.id)
        /\ MapHas(flags, obj.name)
        /\ Created(obj).ret = "Conflict"

\* C7: a create that succeeds returns the object it was given, and findById
\* of its id and findByName of its name both return that object.
CreateStoresUnderBothKeys ==
    \A obj \in NewFlags :
        LET ff == Len(heap) + 1
            o  == Created(obj)
        IN  o.ret = "flag" =>
              /\ o.ref = ff
              /\ findById(o.flags, obj.id) = ff
              /\ findByName(o.flags, obj.name) = ff

\* C7, witness: next to a stored flag, a second flag with an id different
\* from its name is created.
CreateSucceeds ==
    \E obj \in NewFlags :
        /\ flags # <<>>
        /\ obj.id # obj.name
        /\ Created(obj).ret = "flag"
        /\ findByName(Created(obj).flags, obj.name) = Len(heap) + 1

\* C8: findById(k) resolves to a flag only if k is the flag's id, and
\* findByName(k) only if k is the flag's name.
ExactlyOneIdAndOneName ==
    \A k \in Keys :
        /\ findById(flags, k) # Null => heap[findById(flags, k)].id = k
        /\ findByName(flags, k) # Null => heap[findByName(flags, k)].name = k

\* a create, rename or delete of call frame f has written one of its two keys
\* (or the index but not yet the name field) and not yet the other
HalfApplied(f) ==
    \/ f.pc \in {"create:setName", "update:setNew", "delete:deleteName"}
    \/ f.pc = "update:assign" /\ f.updates.name # heap[f.found].name

\* C9: while a mutation is half applied, no other call executes a statement:
\* neither a read nor another mutation starts or continues in that state.
NoHalfAppliedMutationObserved ==
    [][\A c \in 1..MaxCalls :
          HalfApplied(calls[c]) =>
              \A d \in 1..MaxCalls \ {c} :
                  \/ calls'[d] = calls[d]
                  \/ calls[d].pc = "idle" /\ calls'[d].pc = "start"]_vars

\* C9, witness: a mutation is half applied while another request waits to run.
RequestWaitsDuringMutation ==
    \E c, d \in 1..MaxCalls :
        /\ c # d
        /\ HalfApplied(calls[c])
        /\ calls[d].pc = "start"

\* C10: whatever the options, no flag appears twice in the sequence list
\* returns.
ListDeduplicates ==
    \A options \in ListOptions : NoDuplicates(list(flags, heap, options))

\* the stored flags the filter of list and count keeps
Matching(options) ==
    {f \in Stored(flags) :
        options.search = "" \/ matchesSearch(heap[f], options.search)}

\* C11: whatever the options, count returns the number of distinct stored
\* flags that pass the search filter (all of them without a search), each
\* counted once, whatever limit and offset are.
CountIsExact ==
    \A options \in ListOptions :
        count(flags, heap, options) = Cardinality(Matching(options))

\* ------------------------------------------------------------ engine properties
\* the call of the behaviour is a call of op that has ended
Finished(op) == engine.op = op /\ engine.out # Pending

\* the context passes the validation of evaluate
ValidContext(context) ==
    context # Absent /\ ~Falsy(context, "userId") /\ ~Falsy(context, "tenantId")

\* the flag is an object whose rules are an array
HasRules(featureFlag) == featureFlag # Absent /\ "rules" \in DOMAIN featureFlag

\* rule.evaluate(context) returns true
Matches(rule, context) ==
    ~CallEvaluate(rule, context).threw /\ CallEvaluate(rule, context).value

\* rule.evaluate(context) throws
Faults(rule, context) == CallEvaluate(rule, context).threw

\* the positions of the rules of the evaluated flag that match the context
Hits == {i \in 1..Len(engine.featureFlag.rules) :
            Matches(engine.featureFlag.rules[i], engine.context)}

\* evaluate has ended for a flag with a rules array and a valid context
Evaluated ==
    /\ Finished("evaluate")
    /\ HasRules(engine.featureFlag)
    /\ ValidContext(engine.context)

\* C12: when evaluate is called with a valid context and some rule of the
\* flag matches, it returns enabled = true, fallbackToDefault = false and the
\* first matching rule in stored order as matchedRule, whatever flag.enabled
\* is, and the rules it has evaluated are exactly those up to the matched one,
\* in stored order.
FirstMatchWins ==
    (Evaluated /\ Hits # {}) =>
        LET k == CHOOSE i \in Hits : \A j \in Hits : i <= j
        IN  /\ ~engine.out.threw
            /\ engine.out.value =
                  EvaluationResult(TRUE, engine.featureFlag.rules[k], FALSE)
            /\ engine.out.consulted = [i \in 1..k |-> i]

\* C12, witness: a disabled flag of three rules of which the first does not
\* match and the second and the third do; the second is returned.
SecondOfThreeMatches ==
    /\ Evaluated
    /\ ~engine.featureFlag.enabled
    /\ Len(engine.featureFlag.rules) = 3
    /\ Hits = {2, 3}
    /\ engine.out.value.matchedRule = engine.featureFlag.rules[2]

\* C13: when evaluate is called with a valid context and no rule of the flag
\* matches, it returns enabled = flag.enabled, no matchedRule and
\* fallbackToDefault = true; and in every result evaluate returns,
\* fallbackToDefault is true exactly when there is no matchedRule.
FallbackToDefault ==
    /\ (Evaluated /\ Hits = {}) =>
          /\ ~engine.out.threw
          /\ engine.out.value =
                EvaluationResult(engine.featureFlag.enabled, Absent, TRUE)
    /\ (Finished("evaluate") /\ ~engine.out.threw) =>
          (engine.out.value.fallbackToDefault
             <=> engine.out.value.matchedRule = Absent)

\* C13, witness: an enabled flag whose rules are a disabled rule that names
\* the tenant of the context and an enabled rule that is not satisfied; the
\* result is the default.
NoRuleMatches ==
    /\ Evaluated
    /\ engine.featureFlag.enabled
    /\ Len(engine.featureFlag.rules) = 2
    /\ \E i, j \in 1..2 :
          /\ engine.featureFlag.rules[i].class = "TenantRule"
          /\ ~engine.featureFlag.rules[i].enabled
          /\ ArrayIncludes(engine.featureFlag.rules[i].tenantIds,
                           engine.context.tenantId)
          /\ engine.featureFlag.rules[j].class = "UserRule"
          /\ engine.featureFlag.rules[j].enabled
    /\ Hits = {}
    /\ engine.out.value.enabled
    /\ engine.out.value.fallbackToDefault

\* the flag of the call without the rules whose evaluate throws
WithoutFaultingRules ==
    LET sound(rule) == ~Faults(rule, engine.context)
    IN  [engine.featureFlag EXCEPT !.rules = SelectSeq(@, sound)]

\* C14: when evaluate is called with a valid context, a rule whose evaluate
\* throws counts as not matching and the scan goes on: the result is the one
\* evaluate returns for the same flag without the rules that throw, and the
\* rule after a rule that throws is evaluated.
FaultIsolation ==
    Evaluated =>
        /\ ~engine.out.threw
        /\ engine.out.value = evaluate(WithoutFaultingRules, engine.context).value
        /\ \A i \in 1..(Len(engine.featureFlag.rules) - 1) :
              (Faults(engine.featureFlag.rules[i], engine.context)
                 /\ \A j \in Hits : j > i) =>
                  ArrayIncludes(engine.out.consulted, i + 1)

\* C14, witness: a disabled flag whose first rule throws and whose later rule
\* matches evaluates to enabled.
FaultThenMatch ==
    /\ Evaluated
    /\ ~engine.featureFlag.enabled
    /\ Len(engine.featureFlag.rules) >= 2
    /\ Faults(engine.featureFlag.rules[1], engine.context)
    /\ Hits # {}
    /\ engine.out.value.enabled
    /\ ~engine.out.value.fallbackToDefault

\* C15: no call of evaluate throws, whatever the flag and the context are.
EvaluateNeverThrows ==
    Finished("evaluate") => ~engine.out.threw

\* the validation of evaluate fails for a flag and a context that are present
Degraded ==
    /\ Finished("evaluate")
    /\ engine.featureFlag # Absent
    /\ engine.context # Absent
    /\ \/ Falsy(engine.context, "userId")
       \/ Falsy(engine.context, "tenantId")
       \/ "rules" \notin DOMAIN engine.featureFlag

\* C16: when the flag is present and the context lacks a userId or a
\* tenantId, or the flag's rules are not an array, evaluate returns enabled =
\* flag.enabled, no matchedRule and fallbackToDefault = true, and has
\* evaluated no rule.
DegradesToDefault ==
    Degraded =>
        /\ ~engine.out.threw
        /\ engine.out.value =
              EvaluationResult(engine.featureFlag.enabled, Absent, TRUE)
        /\ engine.out.consulted = <<>>

\* C16, witness: a context without userId whose tenant the first rule of a
\* disabled flag names; the result is disabled.
RuleWouldHaveMatched ==
    /\ Degraded
    /\ HasRules(engine.featureFlag)
    /\ ~engine.featureFlag.enabled
    /\ "userId" \notin DOMAIN engine.context
    /\ Len(engine.featureFlag.rules) >= 1
    /\ Matches(engine.featureFlag.rules[1], engine.context)
    /\ ~engine.out.value.enabled

\* what evaluate does on its own for the i-th flag of the batch
Single(i) == evaluate(engine.featureFlags[i], engine.context)

RuleFields(rule) ==
    [f \in DOMAIN rule \ {"class", "createdAt"} |-> rule[f]]

\* C19: FeatureFlag.fromJSON(f.toJSON()) returns a flag with the id, name,
\* description, enabled, createdAt and updatedAt of f, whose rules have the
\* id, type, enabled and variant fields of the rules of f, in the same order.
RoundTripPreservesFlag ==
    Finished("FeatureFlag.fromJSON") =>
        /\ ~engine.out.threw
        /\ \A f \in {"id", "name", "description", "enabled", "createdAt", "updatedAt"} :
              /\ f \in DOMAIN engine.out.value
              /\ engine.out.value[f] = engine.flag[f]
        /\ "rules" \in DOMAIN engine.out.value
        /\ Len(engine.out.value.rules) = Len(engine.flag.rules)
        /\ \A i \in 1..Len(engine.flag.rules) :
              RuleFields(engine.out.value.rules[i]) = RuleFields(engine.flag.rules[i])

\* the type of the plain object is none of RULE_TYPES
UnknownType(data) ==
    /\ data # Absent
    /\ ~InstanceOfRule(data)
    /\ Read(data, "type") \notin
          {RULE_TYPES.TENANT, RULE_TYPES.USER, RULE_TYPES.PERCENTAGE}

\* C20: Rule.fromJSON throws for data of an unknown type, and new FeatureFlag
\* throws when its rules list holds a plain object of an unknown type; a flag
\* the constructor returns has as many rules as the list it was given.
UnknownTypeIsHardFailure ==
    /\ (Finished("Rule.fromJSON") /\ UnknownType(engine.data)) => engine.out.threw
    /\ Finished("new FeatureFlag") =>
          LET rules == OrDefault(engine.data, "rules", <<>>)
          IN  /\ (\E i \in 1..Len(rules) : UnknownType(rules[i])) => engine.out.threw
              /\ ~engine.out.threw => Len(engine.out.value.rules) = Len(rules)

\* C20, witness: the constructor is given a rule of a known type, then one of
\* an unknown type, then one of a known type, and throws.
UnknownTypeAmongKnown ==
    /\ Finished("new FeatureFlag")
    /\ "rules" \in DOMAIN engine.data
    /\ Len(engine.data.rules) = 3
    /\ ~UnknownType(engine.data.rules[1])
    /\ UnknownType(engine.data.rules[2])
    /\ Read(engine.data.rules[2], "type") = "geo"
    /\ ~UnknownType(engine.data.rules[3])
    /\ engine.out.threw

\* the rule that Rule.fromJSON builds from the plain object matches the context
SatisfiedBy(ruleData, context) ==
    Matches(Rule_fromJSON(ruleData, uuidv4(1), 0).value, context)

\* C17: after update(id, {rules: R}) has succeeded for plain rule objects R,
\* evaluate of the stored flag with a valid context returns the first rule of
\* R that the context satisfies as matchedRule with enabled = true, and the
\* default of the flag only when the context satisfies no rule of R.
UpdatedRulesTakeEffect ==
    \A id \in RequestIds, rs \in BodyRules, t \in RequestTimes,
       context \in RequestContexts :
        LET o == update(flags, heap, id, [rules |-> rs], t)
        IN  o.ret = "flag" =>
              LET stored == o.heap[findById(o.flags, id)]
                  got    == evaluate(stored, context)
                  hits   == {i \in 1..Len(rs) : SatisfiedBy(rs[i], context)}
              IN  /\ stored.rules = rs
                  /\ ~got.threw
                  /\ IF hits = {}
                     THEN got.value = EvaluationResult(stored.enabled, Absent, TRUE)
                     ELSE got.value = EvaluationResult(
                            TRUE, rs[CHOOSE i \in hits : \A j \in hits : i <= j], FALSE)

\* ------------------------------------------------------------ rule properties
\* a call of evaluate on a rule of class cls has ended
RuleEvaluated(cls) == Finished("rule.evaluate") /\ engine.rule.class = cls

\* the id the context carries in field f is an element of the list
Member(ids, context, f) ==
    f \in DOMAIN context /\ \E i \in 1..Len(ids) : ids[i] = context[f]

\* C21: evaluate of a disabled rule returns false, whatever the variant, its
\* list or percentage and the context are; evaluate of an enabled tenant
\* (user) rule returns true exactly when the tenantId (userId) of the context
\* is an element of its list.
DisabledRuleNeverMatches ==
    Finished("rule.evaluate") =>
        /\ ~engine.out.threw
        /\ ~engine.rule.enabled => engine.out.value = FALSE
        /\ (engine.rule.enabled /\ engine.rule.class = "TenantRule") =>
              (engine.out.value
                 <=> Member(engine.rule.tenantIds, engine.context, "tenantId"))
        /\ (engine.rule.enabled /\ engine.rule.class = "UserRule") =>
              (engine.out.value
                 <=> Member(engine.rule.userIds, engine.context, "userId"))

\* C21, witness: a disabled tenant rule whose list holds the tenant of the
\* context has been evaluated to false.
DisabledRuleNamesContext ==
    /\ RuleEvaluated("TenantRule")
    /\ ~engine.rule.enabled
    /\ Member(engine.rule.tenantIds, engine.context, "tenantId")
    /\ engine.out.value = FALSE

\* the evaluated percentage rule with another percentage
WithPercentage(p) == [engine.rule EXCEPT !.percentage = p]

\* C22: when an enabled percentage rule with percentage p1 in [0,100] has
\* evaluated to true, the same rule with any percentage p2 in [0,100] above
\* p1 evaluates to true for the same context.
PercentageIsMonotone ==
    (/\ RuleEvaluated("PercentageRule")
     /\ engine.rule.enabled
     /\ engine.rule.percentage \in 0..100
     /\ engine.out.value) =>
        \A p2 \in (engine.rule.percentage + 1)..100 :
            PercentageRule_evaluate(WithPercentage(p2), engine.context)

\* C22, witness: a rule has evaluated to true at the least percentage that
\* includes the context: one percent below the same context is left out.
LeastIncludingPercentage ==
    /\ RuleEvaluated("PercentageRule")
    /\ engine.rule.enabled
    /\ engine.rule.percentage \in 2..99
    /\ engine.out.value
    /\ ~PercentageRule_evaluate(WithPercentage(engine.rule.percentage - 1),
                                engine.context)

\* C23: what evaluate of a percentage rule returns for a context is what it
\* returns for every rule with that percentage (and enabled field), whatever
\* its id and creation time are, and a later call at any time returns what the
\* earlier call has returned.
PercentageIsDeterministic ==
    /\ [](RuleEvaluated("PercentageRule") =>
            \A other \in PercentageRules :
                (other.percentage = engine.rule.percentage
                   /\ other.enabled = engine.rule.enabled) =>
                    PercentageRule_evaluate(other, engine.context)
                        = engine.out.value)
    /\ [][RuleEvaluated("PercentageRule") => engine'.out = engine.out]_vars

\* C23, witness: a rule that includes the context has been evaluated for the
\* second time, at a time after its creation, by a percentage that is not a
\* boundary.
EvaluatedTwice ==
    /\ RuleEvaluated("PercentageRule")
    /\ engine.calls = 2
    /\ engine.now > engine.rule.createdAt
    /\ engine.rule.percentage \in 1..99
    /\ engine.out.value

\* C24: new PercentageRule never throws and stores a percentage in [0,100]:
\* 0 for an input below 0, 100 for an input above 100, the input itself
\* inside the interval.
ClampsPercentage ==
    Finished("new PercentageRule") =>
        LET input  == OrDefault(engine.data, "percentage", 0)
            stored == engine.out.value.percentage
        IN  /\ ~engine.out.threw
            /\ stored # NaN
            /\ stored \in 0..100
            /\ Less(input, 0) => stored = 0
            /\ Less(100, input) => stored = 100
            /\ input \in 0..100 => stored = input

\* C25: an enabled percentage rule with percentage 0 evaluates to false and
\* one with percentage 100 to true, whatever the context is.
PercentageBoundaries ==
    (RuleEvaluated("PercentageRule") /\ engine.rule.enabled) =>
        /\ engine.rule.percentage = 0 => engine.out.value = FALSE
        /\ engine.rule.percentage = 100 => engine.out.value = TRUE

\* C25, witness: a rule with percentage 100 has included a context that has
\* no userId.
EveryoneIncluded ==
    /\ RuleEvaluated("PercentageRule")
    /\ engine.rule.enabled
    /\ engine.rule.percentage = 100
    /\ "userId" \notin DOMAIN engine.context
    /\ engine.out.value = TRUE

\* one step of the polynomial rolling hash: 31 * h + c, wrapped to a signed
\* 32-bit integer
RollingStep(h, c) ==
    LET lo == (31 * (h % 65536)) + c
        hi == (31 * ((h \div 65536) % 65536)) + (lo \div 65536)
    IN  ToInt32(hi % 65536, lo % 65536)

RECURSIVE RollingHash(_, _, _)
RollingHash(str, i, h) ==
    IF i > Len(str) THEN h
    ELSE RollingHash(str, i + 1, RollingStep(h, charCodeAt(str[i])))

\* C30: for the string of the context, _hash is the absolute value of the
\* polynomial rolling hash, the bucket _hash % 100 is an integer in [0,100),
\* also where the rolling hash is -2^31, and an enabled rule with a percentage
\* in [0,100] matches exactly when the bucket is below its percentage.
BucketComputation ==
    RuleEvaluated("PercentageRule") =>
        LET str     == HashInput(engine.context)
            rolling == RollingHash(str, 1, 0)
            hash    == _hash(str)
            bucket  == Remainder(hash, 100)
        IN  /\ IF rolling = MinInt32
               THEN hash = [hi |-> 32768, lo |-> 0]
               ELSE /\ hash.hi \in 0..32767
                    /\ hash.lo \in 0..65535
                    /\ (hash.hi * 65536) + hash.lo
                          = (IF rolling < 0 THEN -rolling ELSE rolling)
            /\ bucket \in 0..99
            /\ (engine.rule.enabled /\ engine.rule.percentage \in 0..100) =>
                  (engine.out.value <=> bucket < engine.rule.percentage)

\* C30, witness: the context whose rolling hash is -2^31 falls into bucket 48
\* and has been included by a rule with percentage 49.
MinimumHashBucket ==
    /\ RuleEvaluated("PercentageRule")
    /\ RollingHash(HashInput(engine.context), 1, 0) = MinInt32
    /\ Remainder(_hash(HashInput(engine.context)), 100) = 48
    /\ engine.rule.enabled
    /\ engine.rule.percentage = 49
    /\ engine.out.value = TRUE

\* ------------------------------------------------------------ list properties
\* a sequence without the later occurrences of its elements
RECURSIVE Distinct(_)
Distinct(seq) ==
    IF seq = <<>> THEN <<>>
    ELSE LET front == SubSeq(seq, 1, Len(seq) - 1)
             last  == seq[Len(seq)]
         IN  IF \E i \in 1..Len(front) : front[i] = last
             THEN Distinct(front)
             ELSE Append(Distinct(front), last)

\* the stored flags in the order of their first entry, each once
StoredFlags == Distinct(MapValues(flags))

\* C26: list returns the elements at positions offset .. offset + limit - 1 of
\* the sequence of the stored flags that pass the search filter, so at most
\* limit elements, and count returns the length of that filtered sequence.
ListPaginatesFilteredFlags ==
    \A options \in ListOptions :
        LET keep(f)  == f \in Matching(options)
            filtered == SelectSeq(StoredFlags, keep)
            got      == list(flags, heap, options)
        IN  /\ got = slice(filtered, options.offset, options.offset + options.limit)
            /\ Len(got) <= options.limit
            /\ count(flags, heap, options) = Len(filtered)

\* the options of a list call without pagination
Unpaginated(search) == [limit |-> DefaultLimit, offset |-> 0, search |-> search]

\* the position at which x first occurs in a sequence that holds it
FirstIndex(seq, x) ==
    CHOOSE i \in 1..Len(seq) : seq[i] = x /\ \A j \in 1..(i - 1) : seq[j] # x

\* C27: in every list result without pagination, a flag created before
\* another one occurs before it, whatever updates and renames have happened
\* in between.  The live objects of the heap are numbered in the order of
\* their creation.
ListKeepsInsertionOrder ==
    \A search \in Searches :
        LET got == list(flags, heap, Unpaginated(search))
        IN  \A i, j \in 1..Len(got) :
                got[i] < got[j] => FirstIndex(got, got[i]) < FirstIndex(got, got[j])

\* no stored flag has the id k
AbsentId(k) == \A f \in Stored(flags) : heap[f].id # k

\* C28: when no stored flag has the id k, update(k, updates) returns null and
\* delete(k) returns false, and both leave the map and every stored flag as
\* they were.
AbsentIdIsNoOp ==
    \A k \in Keys :
        AbsentId(k) =>
            /\ \A u \in UpdateInputs, t \in Times :
                  LET o == update(flags, heap, k, u, t)
                  IN  o.ret = "null" /\ o.flags = flags /\ o.heap = heap
            /\ LET o == delete(flags, heap, k)
               IN  o.ret = "false" /\ o.flags = flags /\ o.heap = heap

\* C29: create fails with Conflict only if a stored flag has the id or a
\* stored flag has the name of the new flag, and update fails with Conflict
\* only if another stored flag has the new name.
NoSpuriousConflict ==
    /\ \A obj \in NewFlags :
          Created(obj).ret = "Conflict" =>
              \E f \in Stored(flags) :
                  heap[f].id = obj.id \/ heap[f].name = obj.name
    /\ \A k \in Keys, u \in UpdateInputs, t \in Times :
          update(flags, heap, k, u, t).ret = "Conflict" =>
              \E f \in Stored(flags) \ {MapGet(flags, k)} : heap[f].name = u.name
====
